---- MODULE Spec2Model ----
(***************************************************************************)
(* A model of premierecutter.py: the timecode converter                    *)
(* (timecode_to_frames), the cut-table parser (parse_cut_table) and the    *)
(* timeline assembler (generate_xml).                                      *)
(*                                                                         *)
(* Strings that the code only splits are represented by their pieces: a    *)
(* timecode string is the sequence of its ":"-separated fields, a field is *)
(* what int() makes of it (an integer, or a ValueError), and the part of a *)
(* cut line before its first "," is the sequence of its "-"-separated      *)
(* pieces.  The XML text of an element is represented by the record of the *)
(* values the f-string interpolates into it.  The title-image renderer     *)
(* (create_title_card_image) is the file it writes: path -> caption.       *)
(*                                                                         *)
(* generate_xml is stepped once for the intro block, once per iteration of *)
(* the source loop, once per iteration of the cut loop and once for the    *)
(* return; parse_cut_table is stepped once per line and once for the       *)
(* return.                                                                 *)
(***************************************************************************)
EXTENDS Integers, Sequences, FiniteSets, TLC

(***************************************************************************)
(* Bounds of the model.                                                    *)
(***************************************************************************)
MaxSources == 3
MaxCuts == 3
MaxLines == 4
MaxManySources == 5
FewCuts == 2

(***************************************************************************)
(* Program constants.                                                      *)
(***************************************************************************)
fps == 30
transition_duration == 15
title_duration == 210
FirstClipId == 4
FirstFileId == 1

(***************************************************************************)
(* Timecode strings and timecode_to_frames.                                *)
(***************************************************************************)
IntField(n) == [isint |-> TRUE, val |-> n]
NonIntField == [isint |-> FALSE, val |-> 0]

Tc3(h, m, s) == <<IntField(h), IntField(m), IntField(s)>>
Tc4(h, m, s, f) == <<IntField(h), IntField(m), IntField(s), IntField(f)>>

ValueError == [ok |-> FALSE, frames |-> 0]

timecode_to_frames(timecode) ==
    LET parts == timecode
        allint == \A k \in 1..Len(parts) : parts[k].isint
    IN  IF Len(parts) = 3
        THEN IF allint
             THEN [ok |-> TRUE,
                   frames |-> (parts[1].val * 3600 + parts[2].val * 60
                               + parts[3].val) * fps + 0]
             ELSE ValueError
        ELSE IF Len(parts) = 4
        THEN IF allint
             THEN [ok |-> TRUE,
                   frames |-> (parts[1].val * 3600 + parts[2].val * 60
                               + parts[3].val) * fps + parts[4].val]
             ELSE ValueError
        ELSE ValueError

(***************************************************************************)
(* The inputs of generate_xml.  A cut record is what parse_cut_table       *)
(* builds: start, end (timecode strings) and label.                        *)
(***************************************************************************)
Cut(start, end, label) == [start |-> start, end |-> end, label |-> label]

SourceNames ==
    <<"Video_Part_1.mp4", "Video_Part_2.mp4", "Video_Part_3.mp4",
      "Video_Part_4.mp4", "Video_Part_5.mp4", "Video_Part_6.mp4">>

\* Families of cut records; the cut at index j of source s is drawn from one
\* family in rotation.  The first family is the example of load_example.
CutPools ==
    << << Cut(Tc3(0, 0, 0), Tc3(0, 5, 30), "Introduction and Overview"),
          Cut(Tc3(0, 7, 0), Tc3(0, 12, 15), "Key Concepts Explained"),
          Cut(Tc3(0, 15, 30), Tc3(0, 20, 45), "First Case Study") >>,
       << Cut(Tc4(0, 0, 1, 10), Tc4(0, 0, 1, 14), "Blink"),
          Cut(Tc4(0, 0, 2, 0), Tc3(0, 0, 3), "One second"),
          Cut(Tc4(0, 0, 2, 0), Tc4(0, 0, 2, 1), "One frame") >>,
       << Cut(Tc3(0, 7, 0), Tc3(0, 12, 15), "Key Concepts Explained"),
          Cut(Tc3(0, 5, 30), Tc3(0, 5, 30), "Empty range"),
          Cut(Tc3(0, 12, 15), Tc3(0, 7, 0), "Reversed range") >>,
       << Cut(Tc3(0, 0, 0), Tc3(0, 5, 30), "Introduction and Overview"),
          Cut(Tc3(0, 7, 0), <<IntField(12), IntField(15)>>, "Two fields") >>,
       << Cut(Tc3(0, 0, 0), Tc3(0, 5, 30), "Introduction and Overview"),
          Cut(<<IntField(0), NonIntField, IntField(0)>>, Tc3(0, 12, 15),
              "Not a number") >> >>

PoolCut(q, s, j) == CutPools[q][((s + j) % Len(CutPools[q])) + 1]

\* All sequences over S of length 0..n.
RECURSIVE SeqsUpTo(_, _)
SeqsUpTo(S, n) ==
    IF n = 0 THEN {<<>>}
    ELSE LET shorter == SeqsUpTo(S, n - 1)
         IN  shorter \cup {Append(q, x) : q \in shorter, x \in S}

\* The ordered items of the sources dict: distinct names, each with its cuts.
\* generate_xml_file passes on only a non-empty dict (line 566).
SourcesOf(counts, q) ==
    [s \in 1..Len(counts) |->
        [name |-> SourceNames[s],
         cuts |-> [j \in 1..counts[s] |-> PoolCut(q, s, j)]]]

\* Up to MaxSources sources of up to MaxCuts cuts from any family, and up to
\* MaxManySources sources of 1..FewCuts cuts of the first family.
SourceInputs ==
    {SourcesOf(counts, q) :
        counts \in SeqsUpTo(0..MaxCuts, MaxSources) \ {<<>>},
        q \in 1..Len(CutPools)}
    \cup {SourcesOf(counts, 1) :
              counts \in SeqsUpTo(1..FewCuts, MaxManySources) \ {<<>>}}

TitleTexts == {"", "Chapter"}

VARIABLES
    pc,                  \* where the modelled function is
    filename,            \* <<>> is None, <<s>> is the string s
    sources,             \* the dict's items in insertion order
    table_text,          \* parse_cut_table: the raw lines
    li,                  \* parse_cut_table: index of the next line of lines
    current_source,      \* parse_cut_table: <<>> is None, <<s>> is the string s
    include_title_cards, title_before_first, title_text,
    video_clips, audio_clips, current_start, clip_id_counter,
    source_file_ids, source_masterclip_ids, file_id_counter,
    si,                  \* generate_xml: 1-based position in sources.items()
    i,                   \* generate_xml: the cut loop's index i
    title_images,        \* files written by create_title_card_image
    xml_content          \* <<>> until generate_xml returns, then <<document>>

parse_vars == <<table_text, li, current_source>>
option_vars == <<include_title_cards, title_before_first, title_text>>
gen_vars == <<video_clips, audio_clips, current_start, clip_id_counter,
              source_file_ids, source_masterclip_ids, file_id_counter,
              si, i, title_images, xml_content>>
vars == <<pc, filename, sources, parse_vars, option_vars, gen_vars>>

(***************************************************************************)
(* The elements generate_xml emits.                                        *)
(***************************************************************************)
create_title_card_xml(card_text, start_frame, duration_frames, clip_id, image_path) ==
    [kind |-> "title", id |-> clip_id, masterclipid |-> clip_id,
     name |-> image_path, duration |-> duration_frames,
     start |-> start_frame, end |-> start_frame + duration_frames,
     in |-> 0, out |-> duration_frames, file |-> clip_id]

create_transition_xml(start_frame, end_frame) ==
    [kind |-> "transition", start |-> start_frame, end |-> end_frame]

\* Lines 233-235, 364-366 and 377-379.
TransitionAt(boundary) ==
    create_transition_xml(boundary - transition_duration \div 2,
                          boundary + transition_duration \div 2)

\* MediaClip with end taken from the source out point instead of the duration.
MediaClipEndFromOut(clip_id, masterclip_id, file_id, source_file, start, duration, start_frames, end_frames) ==
    [kind |-> "clip", id |-> clip_id, masterclipid |-> masterclip_id,
     name |-> source_file, start |-> start, end |-> start + end_frames,
     in |-> start_frames, out |-> end_frames, file |-> file_id]

\* Lines 253-311.
MediaClip(clip_id, masterclip_id, file_id, source_file, start, duration, start_frames, end_frames) ==
    [kind |-> "clip", id |-> clip_id, masterclipid |-> masterclip_id,
     name |-> source_file, start |-> start, end |-> start + duration,
     in |-> start_frames, out |-> end_frames, file |-> file_id]

\* AudioClip with the second element's track index pasted from the first.
AudioClipTrackOne(clip_id, trackindex, masterclip_id, file_id, source_file, start, duration, start_frames, end_frames) ==
    [id |-> clip_id, trackindex |-> 1,
     masterclipid |-> masterclip_id, name |-> source_file,
     start |-> start, end |-> start + duration,
     in |-> start_frames, out |-> end_frames, file |-> file_id]

\* Lines 314-358.
AudioClip(clip_id, trackindex, masterclip_id, file_id, source_file, start, duration, start_frames, end_frames) ==
    [id |-> clip_id, trackindex |-> trackindex,
     masterclipid |-> masterclip_id, name |-> source_file,
     start |-> start, end |-> start + duration,
     in |-> start_frames, out |-> end_frames, file |-> file_id]

\* image_path is title_card_<clip id>.png; the file holds the caption drawn.
create_title_card_image(images, card_text, image_path) ==
    (image_path :> card_text) @@ images

\* Line 224.
IntroRequested == include_title_cards /\ title_before_first

\* IntroCardText ignoring the configured title text.
IntroCardTextPlaceholder == "Intro Title"

\* Line 225.
IntroCardText == IF title_text # "" THEN title_text ELSE "Intro Title"

\* Line 370.
CutCardText(cut) == IF ~(title_text # "") THEN cut.label ELSE title_text

\* TitleFollows without the exception for the last cut of a source.
TitleFollowsEveryCut(idx, cuts) == include_title_cards /\ idx < Len(cuts)

\* Line 363.
TitleFollows(idx, cuts) == include_title_cards /\ idx < Len(cuts) - 1

\* AfterTitle with the cursor also advanced over the transition.
AfterTitleAndTransition(start) == start + title_duration + transition_duration

\* Lines 229 and 374.
AfterTitle(start) == start + title_duration

\* Line 360.
AfterClip(start, duration) == start + duration

\* NextClipId skipping a value.
NextClipIdSkipping(counter) == counter + 2

\* Lines 230, 369 and 381.
NextClipId(counter) == counter + 1

\* NextFileId that never advances.
NextFileIdStuck(counter) == counter

\* Line 242.
NextFileId(counter) == counter + 1

(***************************************************************************)
(* generate_xml                                                            *)
(***************************************************************************)
GenInit ==
    /\ pc = "intro"
    /\ filename = <<"Multi_Source_Test_Project">>
    /\ sources \in SourceInputs
    /\ table_text = <<>> /\ li = 1 /\ current_source = <<>>
    /\ include_title_cards \in BOOLEAN
    /\ title_before_first \in BOOLEAN
    /\ title_text \in TitleTexts
    /\ video_clips = <<>>
    /\ audio_clips = <<>>
    /\ current_start = 0
    /\ clip_id_counter = FirstClipId
    /\ source_file_ids = <<>>
    /\ source_masterclip_ids = <<>>
    /\ file_id_counter = FirstFileId
    /\ si = 1
    /\ i = 0
    /\ title_images = <<>>
    /\ xml_content = <<>>

\* Lines 223-235: the title card before the first cut.
IntroTitle ==
    /\ pc = "intro"
    /\ pc' = "source"
    /\ IF IntroRequested
       THEN LET card_text == IntroCardText
                image_path == clip_id_counter
                after == AfterTitle(current_start)
            IN  /\ title_images' =
                       create_title_card_image(title_images, card_text, image_path)
                /\ video_clips' =
                       video_clips
                       \o <<create_title_card_xml(card_text, current_start,
                                title_duration, clip_id_counter, image_path),
                            TransitionAt(after)>>
                /\ current_start' = after
                /\ clip_id_counter' = NextClipId(clip_id_counter)
       ELSE UNCHANGED <<title_images, video_clips, current_start, clip_id_counter>>
    /\ UNCHANGED <<filename, sources, parse_vars, option_vars, audio_clips,
                   source_file_ids, source_masterclip_ids, file_id_counter,
                   si, i, xml_content>>

\* Lines 237-245: one iteration of the source loop, up to the cut loop.
NextSource ==
    /\ pc = "source"
    /\ si <= Len(sources)
    /\ LET source_file == sources[si].name
           cuts == sources[si].cuts
       IN  /\ IF source_file \notin DOMAIN source_file_ids
              THEN /\ source_file_ids' =
                          (source_file :> file_id_counter) @@ source_file_ids
                   /\ source_masterclip_ids' =
                          (source_file :> file_id_counter) @@ source_masterclip_ids
                   /\ file_id_counter' = NextFileId(file_id_counter)
              ELSE UNCHANGED <<source_file_ids, source_masterclip_ids,
                               file_id_counter>>
           /\ i' = 0
           /\ IF Len(cuts) = 0
              THEN pc' = "source" /\ si' = si + 1
              ELSE pc' = "cut" /\ si' = si
    /\ UNCHANGED <<filename, sources, parse_vars, option_vars, video_clips,
                   audio_clips, current_start, clip_id_counter, title_images,
                   xml_content>>

\* Lines 247-381: one iteration of the cut loop.
ProcessCut ==
    /\ pc = "cut"
    /\ LET source_file == sources[si].name
           cuts == sources[si].cuts
           cut == cuts[i + 1]
           current_file_id == source_file_ids[source_file]
           current_masterclip_id == source_masterclip_ids[source_file]
           s == timecode_to_frames(cut.start)
           e == timecode_to_frames(cut.end)
       IN  IF ~s.ok \/ ~e.ok
           THEN \* ValueError leaves generate_xml: nothing is returned
                /\ pc' = "error"
                /\ UNCHANGED <<si, i, video_clips, audio_clips, current_start,
                               clip_id_counter, title_images>>
           ELSE LET start_frames == s.frames
                    end_frames == e.frames
                    duration == end_frames - start_frames
                    clip == MediaClip(clip_id_counter, current_masterclip_id,
                                current_file_id, source_file, current_start,
                                duration, start_frames, end_frames)
                    audio == <<AudioClip(clip_id_counter, 1, current_masterclip_id,
                                   current_file_id, source_file, current_start,
                                   duration, start_frames, end_frames),
                               AudioClip(clip_id_counter, 2, current_masterclip_id,
                                   current_file_id, source_file, current_start,
                                   duration, start_frames, end_frames)>>
                    after_clip == AfterClip(current_start, duration)
                    title_id == NextClipId(clip_id_counter)
                    card_text == CutCardText(cut)
                    after_title == AfterTitle(after_clip)
                IN  /\ audio_clips' = audio_clips \o audio
                    /\ IF TitleFollows(i, cuts)
                       THEN /\ video_clips' =
                                   video_clips
                                   \o <<clip,
                                        TransitionAt(after_clip),
                                        create_title_card_xml(card_text,
                                            after_clip, title_duration,
                                            title_id, title_id),
                                        TransitionAt(after_title)>>
                            /\ title_images' =
                                   create_title_card_image(title_images,
                                       card_text, title_id)
                            /\ current_start' = after_title
                            /\ clip_id_counter' = NextClipId(title_id)
                       ELSE /\ video_clips' = Append(video_clips, clip)
                            /\ title_images' = title_images
                            /\ current_start' = after_clip
                            /\ clip_id_counter' = NextClipId(clip_id_counter)
                    /\ IF i + 1 < Len(cuts)
                       THEN pc' = "cut" /\ i' = i + 1 /\ si' = si
                       ELSE pc' = "source" /\ i' = i + 1 /\ si' = si + 1
    /\ UNCHANGED <<filename, sources, parse_vars, option_vars,
                   source_file_ids, source_masterclip_ids, file_id_counter,
                   xml_content>>

\* Lines 383-481: total_frames and the document.
Return ==
    /\ pc = "source"
    /\ si > Len(sources)
    /\ pc' = "done"
    /\ LET total_frames == current_start
       IN  xml_content' = <<[name |-> filename[1], duration |-> total_frames,
                             video |-> video_clips, audio |-> audio_clips]>>
    /\ UNCHANGED <<filename, sources, parse_vars, option_vars, video_clips,
                   audio_clips, current_start, clip_id_counter,
                   source_file_ids, source_masterclip_ids, file_id_counter,
                   si, i, title_images>>

Next == IntroTitle \/ NextSource \/ ProcessCut \/ Return

Spec == GenInit /\ [][Next]_vars

(***************************************************************************)
(* parse_cut_table                                                         *)
(*                                                                         *)
(* A line of table_text is the record of what the parser looks at: whether *)
(* it is blank, starts with "FILENAME:" or "SOURCE:" (arg is the stripped  *)
(* text after the directive), and otherwise the "-"-separated pieces of    *)
(* the text before its first "," (parts), whether it has a "," at all, and *)
(* the stripped text after the first "," (label).                          *)
(***************************************************************************)
Line(kind, arg, parts, comma, label) ==
    [kind |-> kind, arg |-> arg, parts |-> parts, comma |-> comma,
     label |-> label]

DashedLabels == {"Q-and-A"}

ContainsDash(label) == label \in DashedLabels

LineAlphabet ==
    { Line("blank", "", <<>>, FALSE, ""),
      Line("FILENAME:", "Multi_Source_Test_Project", <<>>, FALSE, ""),
      Line("SOURCE:", "", <<>>, FALSE, ""),
      Line("SOURCE:", "Video_Part_1.mp4", <<>>, FALSE, ""),
      Line("SOURCE:", "Video_Part_2.mp4", <<>>, FALSE, ""),
      Line("text", "", <<Tc3(0, 0, 0), Tc3(0, 5, 30)>>, TRUE,
           "Introduction and Overview"),
      Line("text", "", <<Tc3(0, 7, 0), Tc3(0, 12, 15)>>, TRUE, "Q-and-A"),
      Line("text", "", <<Tc3(0, 0, 0), Tc3(0, 5, 30)>>, FALSE, ""),
      Line("text", "", <<<<NonIntField>>>>, TRUE, "Q-and-A"),
      Line("text", "", <<Tc3(0, 0, 0), Tc3(0, 5, 30), Tc3(0, 7, 0)>>, TRUE,
           "Introduction and Overview"),
      Line("text", "", <<<<NonIntField>>>>, FALSE, "") }

Texts == SeqsUpTo(LineAlphabet, MaxLines)

NonBlank(line) == line.kind # "blank"

\* Line 35: the stripped, non-blank lines.
lines == SelectSeq(table_text, NonBlank)

\* "-" in line
HasDash(line) ==
    Len(line.parts) > 1 \/ (line.comma /\ ContainsDash(line.label))

\* Python truth of current_source: neither None nor the empty string.
Truthy(s) == s # <<>> /\ s[1] # ""

HasKey(dict, key) == \E k \in 1..Len(dict) : dict[k].name = key

\* sources[key] = value: a new key goes last, an old key keeps its place.
DictSet(dict, key, value) ==
    IF HasKey(dict, key)
    THEN [k \in 1..Len(dict) |->
             IF dict[k].name = key THEN [name |-> key, cuts |-> value]
             ELSE dict[k]]
    ELSE Append(dict, [name |-> key, cuts |-> value])

\* sources[key].append(cut)
DictAppend(dict, key, cut) ==
    [k \in 1..Len(dict) |->
        IF dict[k].name = key
        THEN [name |-> key, cuts |-> Append(dict[k].cuts, cut)]
        ELSE dict[k]]

ParseInit ==
    /\ pc = "parse"
    /\ table_text \in Texts
    /\ li = 1
    /\ filename = <<>>
    /\ sources = <<>>
    /\ current_source = <<>>
    /\ include_title_cards = TRUE
    /\ title_before_first = FALSE
    /\ title_text = ""
    /\ video_clips = <<>>
    /\ audio_clips = <<>>
    /\ current_start = 0
    /\ clip_id_counter = FirstClipId
    /\ source_file_ids = <<>>
    /\ source_masterclip_ids = <<>>
    /\ file_id_counter = FirstFileId
    /\ si = 1
    /\ i = 0
    /\ title_images = <<>>
    /\ xml_content = <<>>

\* Lines 41-55: one iteration of the loop over lines.
ParseLine ==
    /\ pc = "parse"
    /\ li <= Len(lines)
    /\ li' = li + 1
    /\ LET line == lines[li]
       IN  IF line.kind = "FILENAME:"
           THEN /\ filename' = <<line.arg>>
                /\ UNCHANGED <<pc, sources, current_source>>
           ELSE IF line.kind = "SOURCE:"
           THEN /\ current_source' = <<line.arg>>
                /\ sources' = DictSet(sources, line.arg, <<>>)
                /\ UNCHANGED <<pc, filename>>
           ELSE IF Truthy(current_source) /\ HasDash(line) /\ line.comma
           THEN IF Len(line.parts) = 2
                THEN /\ sources' =
                            DictAppend(sources, current_source[1],
                                Cut(line.parts[1], line.parts[2], line.label))
                     /\ UNCHANGED <<pc, filename, current_source>>
                ELSE \* start_time, end_time = ... raises ValueError
                     /\ pc' = "parse_error"
                     /\ UNCHANGED <<filename, sources, current_source>>
           ELSE UNCHANGED <<pc, filename, sources, current_source>>
    /\ UNCHANGED <<table_text, option_vars, gen_vars>>

\* Line 57.
ParseReturn ==
    /\ pc = "parse"
    /\ li > Len(lines)
    /\ pc' = "parsed"
    /\ UNCHANGED <<filename, sources, parse_vars, option_vars, gen_vars>>

ParseNext == ParseLine \/ ParseReturn

ParseSpec == ParseInit /\ [][ParseNext]_vars

(***************************************************************************)
(* Vocabulary of the properties.                                           *)
(***************************************************************************)
IsClip(el) == el.kind = "clip"
IsTitle(el) == el.kind = "title"
IsTransition(el) == el.kind = "transition"
IsClipOrTitle(el) == el.kind # "transition"

Clips == SelectSeq(video_clips, IsClip)
Titles == SelectSeq(video_clips, IsTitle)
Transitions == SelectSeq(video_clips, IsTransition)
ClipsAndTitles == SelectSeq(video_clips, IsClipOrTitle)

\* The cuts of all sources in iteration order.
RECURSIVE FlatCuts(_)
FlatCuts(srcs) ==
    IF srcs = <<>> THEN <<>> ELSE Head(srcs).cuts \o FlatCuts(Tail(srcs))

\* The frame at which the element at position k was placed: the end of the
\* clip or title emitted last before it, 0 when there is none.
RECURSIVE CursorBefore(_)
CursorBefore(k) ==
    IF k <= 1 THEN 0
    ELSE IF IsClipOrTitle(video_clips[k - 1]) THEN video_clips[k - 1].end
    ELSE CursorBefore(k - 1)

Returned == pc = "done"

\* C1: every Transition spans exactly transition_duration (15) frames and
\* lies symmetrically around the boundary frame at which it was emitted.
C1_TransitionSpansDuration ==
    \A k \in 1..Len(video_clips) :
        IsTransition(video_clips[k]) =>
            LET t == video_clips[k]
                b == CursorBefore(k)
            IN  /\ t.end - t.start = transition_duration
                /\ b - t.start = t.end - b

\* What the code does for C1's case: symmetric, spanning 2 * (15 div 2).
TransitionSymmetricSpan14 ==
    \A k \in 1..Len(video_clips) :
        IsTransition(video_clips[k]) =>
            LET t == video_clips[k]
                b == CursorBefore(k)
            IN  /\ t.end - t.start = 2 * (transition_duration \div 2)
                /\ b - t.start = t.end - b

\* C2: every MediaClip has in = frames(cut.start), out = frames(cut.end),
\* start = the cursor at its emission, and out - in = end - start.
C2_ClipDurationPreserved ==
    LET clips == Clips
        flat == FlatCuts(sources)
    IN  /\ Len(clips) <= Len(flat)
        /\ \A k \in 1..Len(video_clips) :
               IsClip(video_clips[k]) => video_clips[k].start = CursorBefore(k)
        /\ \A m \in 1..Len(clips) :
               LET c == clips[m]
                   cut == flat[m]
               IN  /\ timecode_to_frames(cut.start).ok
                   /\ timecode_to_frames(cut.end).ok
                   /\ c.in = timecode_to_frames(cut.start).frames
                   /\ c.out = timecode_to_frames(cut.end).frames
                   /\ c.out - c.in = c.end - c.start

C2_Witness ==
    /\ Returned
    /\ \E m \in 1..Len(Clips) :
           Clips[m].in > 0 /\ Clips[m].out > Clips[m].in /\ Clips[m].start > 0
    /\ \E m \in 1..Len(Clips) : Clips[m].out < Clips[m].in

\* Frames an element adds to the timeline.
Contribution(el) ==
    IF IsClip(el) THEN el.out - el.in
    ELSE IF IsTitle(el) THEN title_duration
    ELSE 0

RECURSIVE SumContributions(_)
SumContributions(els) ==
    IF els = <<>> THEN 0
    ELSE Contribution(Head(els)) + SumContributions(Tail(els))

\* C3: the cursor is the sum of (out - in) over the MediaClips plus 210 per
\* TitleClip, Transitions adding nothing, and the duration written to the
\* document is the final cursor.
C3_DurationIsCursor ==
    /\ current_start = SumContributions(video_clips)
    /\ Returned =>
           /\ Len(xml_content) = 1
           /\ xml_content[1].duration = current_start
           /\ xml_content[1].duration = SumContributions(xml_content[1].video)

C3_Witness ==
    /\ Returned
    /\ Len(Clips) >= 2 /\ Len(Titles) >= 2 /\ Len(Transitions) >= 3
    /\ xml_content[1].duration > 2 * title_duration

\* The kinds C4 describes for one source of n cuts.
RECURSIVE SourceKinds(_, _)
SourceKinds(n, idx) ==
    IF idx >= n THEN <<>>
    ELSE <<"clip">>
         \o (IF include_title_cards /\ idx < n - 1
             THEN <<"transition", "title", "transition">> ELSE <<>>)
         \o SourceKinds(n, idx + 1)

RECURSIVE AllSourceKinds(_)
AllSourceKinds(srcs) ==
    IF srcs = <<>> THEN <<>>
    ELSE SourceKinds(Len(Head(srcs).cuts), 0) \o AllSourceKinds(Tail(srcs))

Kinds(els) == [k \in 1..Len(els) |-> els[k].kind]

IntroLen == IF Len(video_clips) > 0 /\ IsTitle(video_clips[1]) THEN 2 ELSE 0

Max(a, b) == IF a >= b THEN a ELSE b

RECURSIVE InterCutTitles(_)
InterCutTitles(srcs) ==
    IF srcs = <<>> THEN 0
    ELSE Max(Len(Head(srcs).cuts) - 1, 0) + InterCutTitles(Tail(srcs))

\* C4: with title cards enabled every cut but the last of its source is
\* followed by Transition, TitleClip, Transition, and the last cut of a
\* source by nothing, so each source of n cuts has max(n-1, 0) titles; with
\* title cards disabled the video list holds MediaClips only.
C4_TitlesOnlyBetweenCutsOfASource ==
    Returned =>
        /\ SubSeq(Kinds(video_clips), IntroLen + 1, Len(video_clips))
               = AllSourceKinds(sources)
        /\ include_title_cards =>
               /\ Len(Titles) - IntroLen \div 2 = InterCutTitles(sources)
               /\ Len(Transitions) - IntroLen \div 2
                      = 2 * InterCutTitles(sources)
        /\ ~include_title_cards =>
               \A k \in 1..Len(video_clips) : IsClip(video_clips[k])

C4_Witness ==
    /\ Returned
    /\ include_title_cards /\ ~title_before_first
    /\ Len(sources) = 3
    /\ \A s \in 1..3 : Len(sources[s].cuts) = 3
    /\ Len(Clips) = 9 /\ Len(Titles) = 6 /\ Len(Transitions) = 12
    /\ IsClip(video_clips[9]) /\ IsClip(video_clips[10])
    /\ video_clips[9].name # video_clips[10].name

\* C5: a cut whose end converts to no more frames than its start makes the
\* assembly fail: no clip is emitted for it and no document is returned.
C5_DegenerateCutFails ==
    /\ \A k \in 1..Len(video_clips) :
           IsClip(video_clips[k]) => video_clips[k].out > video_clips[k].in
    /\ Returned =>
           \A m \in 1..Len(FlatCuts(sources)) :
               LET cut == FlatCuts(sources)[m]
                   s == timecode_to_frames(cut.start)
                   e == timecode_to_frames(cut.end)
               IN  s.ok /\ e.ok => e.frames > s.frames

\* The intro block C6 describes, under the condition cond.
IntroEmitted(cond) ==
    (cond /\ pc # "intro") =>
        /\ Len(video_clips) >= 2
        /\ IsTitle(video_clips[1])
        /\ video_clips[1].start = 0 /\ video_clips[1].end = title_duration
        /\ video_clips[1].in = 0 /\ video_clips[1].out = title_duration
        /\ video_clips[1].name \in DOMAIN title_images
        /\ title_images[video_clips[1].name]
               = (IF title_text = "" THEN "Intro Title" ELSE title_text)
        /\ IsTransition(video_clips[2])
        /\ title_duration - video_clips[2].start
               = video_clips[2].end - title_duration
        /\ Len(video_clips) = 2 => current_start = title_duration
        /\ Len(Clips) > 0 => Clips[1].start = title_duration

\* C6 as stated: whenever "title before first cut" is requested, whatever the
\* other options, the video list opens with the intro TitleClip (0, 210, 0,
\* 210, explicit text else placeholder) and a Transition centered at 210, and
\* the first MediaClip starts at 210.
C6_IntroWheneverRequested == IntroEmitted(title_before_first)

\* C6 amended: the same, when "title before first cut" is requested and title
\* cards are enabled.
C6_IntroWhenRequestedAndEnabled ==
    IntroEmitted(title_before_first /\ include_title_cards)

C6_Witness ==
    /\ Returned
    /\ title_before_first /\ include_title_cards
    /\ title_text # ""
    /\ Len(Clips) > 0

\* C7: cuts of one source carry one (fileId, masterclipId) pair, distinct
\* sources carry distinct pairs, and the counter starts at 1 and advances once
\* per distinct source, not per cut.
C7_OnePairPerSource ==
    /\ LET clips == Clips
       IN  /\ \A a, b \in 1..Len(clips) :
                  (clips[a].name = clips[b].name)
                      <=> (<<clips[a].file, clips[a].masterclipid>>
                               = <<clips[b].file, clips[b].masterclipid>>)
           /\ \A a \in 1..Len(clips) :
                  /\ clips[a].file = source_file_ids[clips[a].name]
                  /\ clips[a].masterclipid = source_masterclip_ids[clips[a].name]
    /\ file_id_counter = FirstFileId + Cardinality(DOMAIN source_file_ids)
    /\ \A s \in 1..Len(sources) :
           sources[s].name \in DOMAIN source_file_ids =>
               source_file_ids[sources[s].name] = s

C7_Witness ==
    /\ Returned
    /\ \E a, b, c, d \in 1..Len(Clips) :
           /\ a # b /\ Clips[a].name = Clips[b].name
           /\ c # d /\ Clips[c].name = Clips[d].name
           /\ Clips[a].name # Clips[c].name
    /\ file_id_counter = FirstFileId + 3

\* C8: the audio list holds, per MediaClip in emission order, a track-1 then
\* a track-2 element with the clip's start, end, in and out; titles and
\* transitions add none.
C8_TwoAudioPerClip ==
    LET clips == Clips
    IN  /\ Len(audio_clips) = 2 * Len(clips)
        /\ \A m \in 1..Len(clips) :
               \A t \in 1..2 :
                   LET a == audio_clips[2 * (m - 1) + t]
                       c == clips[m]
                   IN  /\ a.trackindex = t
                       /\ a.start = c.start /\ a.end = c.end
                       /\ a.in = c.in /\ a.out = c.out

C8_Witness ==
    /\ Returned
    /\ Len(Clips) >= 3 /\ Len(Titles) >= 2
    /\ Len(audio_clips) = 2 * Len(Clips)
    /\ Len(video_clips) > Len(audio_clips)

\* C10: the element ids of MediaClips and TitleClips start at 4 and grow by
\* exactly 1 from each clip or title to the next in emission order.
C10_ElementIdsConsecutive ==
    LET els == ClipsAndTitles
    IN  /\ Len(els) > 0 => els[1].id = FirstClipId
        /\ \A k \in 1..(Len(els) - 1) : els[k + 1].id = els[k].id + 1
        /\ \A a, b \in 1..Len(els) : a # b => els[a].id # els[b].id

C10_Witness ==
    /\ Returned
    /\ title_before_first /\ include_title_cards
    /\ \E k \in 1..(Len(video_clips) - 1) :
           IsClip(video_clips[k]) /\ IsClip(video_clips[k + 1])
    /\ \E k \in 1..(Len(video_clips) - 2) :
           IsClip(video_clips[k]) /\ IsTitle(video_clips[k + 2])

Parsed == pc = "parsed"

SourceLines == {k \in 1..Len(lines) : lines[k].kind = "SOURCE:"}

SetMin(S) == CHOOSE x \in S : \A y \in S : x <= y
SetMax(S) == CHOOSE x \in S : \A y \in S : x >= y

Occurrences(id) == {k \in SourceLines : lines[k].arg = id}

\* The identifiers of the SOURCE directives in lines[from..], each once, in
\* order of first occurrence.
RECURSIVE FirstOccurrenceOrder(_, _)
FirstOccurrenceOrder(from, seen) ==
    IF from > Len(lines) THEN <<>>
    ELSE IF lines[from].kind = "SOURCE:" /\ lines[from].arg \notin seen
    THEN <<lines[from].arg>>
         \o FirstOccurrenceOrder(from + 1, seen \cup {lines[from].arg})
    ELSE FirstOccurrenceOrder(from + 1, seen)

CutShaped(line) == line.kind = "text" /\ HasDash(line) /\ line.comma

AsWritten(line) == [parts |-> line.parts, label |-> line.label]

\* The cut-shaped lines after the last SOURCE directive for id, up to the
\* next SOURCE directive.
CutLinesAfterLast(id) ==
    LET from == SetMax(Occurrences(id))
        later == {k \in SourceLines : k > from}
        to == IF later = {} THEN Len(lines) + 1 ELSE SetMin(later)
        between == SelectSeq(SubSeq(lines, from + 1, to - 1), CutShaped)
    IN  [k \in 1..Len(between) |-> AsWritten(between[k])]

CutsAsWritten(cuts) ==
    [k \in 1..Len(cuts) |->
        [parts |-> <<cuts[k].start, cuts[k].end>>, label |-> cuts[k].label]]

ParsedAsClaimed ==
    /\ [k \in 1..Len(sources) |-> sources[k].name]
           = FirstOccurrenceOrder(1, {})
    /\ \A k \in 1..Len(sources) :
           CutsAsWritten(sources[k].cuts) = CutLinesAfterLast(sources[k].name)

\* C9: when parse_cut_table returns, the sources are in order of the first
\* occurrence of their identifier and each source's cuts are exactly the
\* cut-shaped lines between the last SOURCE directive for it and the next
\* SOURCE directive, in input order.
C9_SourcesAsDirected == Parsed => ParsedAsClaimed

\* What the code does for C9's case: as claimed when no SOURCE directive has
\* an empty identifier.
ParsedAsClaimedForNamedSources ==
    (Parsed /\ \A k \in SourceLines : lines[k].arg # "") => ParsedAsClaimed

ReplacedAndReordered ==
    /\ Parsed
    /\ Len(sources) = 2
    /\ \E a, b, c \in SourceLines :
           a < b /\ b < c /\ lines[a].arg = lines[c].arg
               /\ lines[b].arg # lines[a].arg
    /\ \E k \in 1..Len(sources) : Len(sources[k].cuts) > 0

\* C11: the file-N / masterclip-N identifier of a TitleClip (N its element
\* id) never equals the file-N / masterclip-N identifier of a source.
C11_TitleAndSourceIdsDisjoint ==
    /\ \A k \in 1..Len(video_clips) :
           IsTitle(video_clips[k]) =>
               \A name \in DOMAIN source_file_ids :
                   /\ video_clips[k].file # source_file_ids[name]
                   /\ video_clips[k].masterclipid # source_masterclip_ids[name]
    /\ Returned =>
           LET doc == xml_content[1].video
           IN  \A a, b \in 1..Len(doc) :
                   (IsTitle(doc[a]) /\ IsClip(doc[b])) =>
                       /\ doc[a].file # doc[b].file
                       /\ doc[a].masterclipid # doc[b].masterclipid

\* What the code does for C11's case: the title ids start at FirstClipId, so
\* they stay clear of the source ids while there are fewer sources than that.
TitleAndSourceIdsDisjointUpToThreeSources ==
    Len(sources) < FirstClipId => C11_TitleAndSourceIdsDisjoint

InputCutsHaveEndAfterStart ==
    \A m \in 1..Len(FlatCuts(sources)) :
        LET cut == FlatCuts(sources)[m]
            s == timecode_to_frames(cut.start)
            e == timecode_to_frames(cut.end)
        IN  s.ok /\ e.ok /\ e.frames > s.frames

TransitionsInside(doc) ==
    \A k \in 1..Len(doc.video) :
        IsTransition(doc.video[k]) =>
            LET t == doc.video[k]
            IN  /\ 0 <= t.start
                /\ t.end <= doc.duration
                /\ k > 1 => doc.video[k - 1].start <= t.start
                /\ k < Len(doc.video) => t.end <= doc.video[k + 1].end

\* C12: for every input whose cuts have end > start, every Transition of the
\* document has 0 <= start and end <= the sequence duration and reaches past
\* the far end of neither element adjacent to its boundary.
C12_TransitionsInsideSequence ==
    (Returned /\ InputCutsHaveEndAfterStart) =>
        TransitionsInside(xml_content[1])

\* What the code does for C12's case: the transitions stay inside when every
\* MediaClip is at least transition_duration div 2 frames long and a MediaClip
\* follows the intro title.
TransitionsInsideForLongCuts ==
    (/\ Returned
     /\ \A m \in 1..Len(Clips) :
            Clips[m].out - Clips[m].in >= transition_duration \div 2
     /\ Len(Clips) > 0)
        => TransitionsInside(xml_content[1])

====
